---- MODULE Spec2Model ----
(***************************************************************************)
(* A model of scel_parser.py: the reader of the metadata of a cell         *)
(* dictionary (read_scel_info) and the decoder of its phonetic table and   *)
(* entry groups (parse_scel).                                              *)
(*                                                                         *)
(* A file is a sequence of bytes 0..255 with a cursor `pos` (the file      *)
(* object f).  f.read(n) returns the bytes that are left, at most n, and   *)
(* never fails for a short read; struct.unpack fails on a short read.      *)
(* A string is the sequence of its code points.                            *)
(***************************************************************************)
EXTENDS Integers, Sequences, FiniteSets, TLC

VARIABLES
    f,               \* the open file: its size and its contents
    pos,             \* f.tell()
    pc,              \* the statement the running function is at
    info,            \* read_scel_info: the fields decoded so far, in order
    dict_len,        \* parse_scel: the value read at 0x120
    py_dict_len,     \* parse_scel: the value read at 0x1540
    tleft,           \* iterations the table loop (line 67) has left
    gleft,           \* iterations the group loop (line 84) has left
    py_dict,         \* the phonetic table, index -> spelling
    word_libraries,  \* the output list
    hleft,           \* _parse_pinyin_word: iterations the homophone loop has left
    py_index_count,  \* _parse_pinyin_word: the index length of the header
    py_data,         \* _parse_pinyin_word: the index bytes read at line 107
    word_py,         \* _parse_pinyin_word: the spellings of the group
    words,           \* _parse_pinyin_word: the entries of the group so far
    gno,             \* history: calls of _parse_pinyin_word made so far
    hist             \* history: what the reads met (see the actions)

vars == <<f, pos, pc, info, dict_len, py_dict_len, tleft, gleft, py_dict,
          word_libraries, hleft, py_index_count, py_data, word_py, words, gno, hist>>

(***************************************************************************)
(* Bounds of the model.                                                    *)
(***************************************************************************)
MaxTable == 2        \* entries of the phonetic table of an input
MaxGroups == 2       \* entry groups of an input
MaxHomophones == 2   \* homophone records of a group of an input
MaxFaults == 1       \* reads of a run that raise
MaxText == 3         \* bytes of the text written at a metadata field
NSeeds == 3          \* patterns the records of an input are filled after

(***************************************************************************)
(* The format's constants.                                                 *)
(***************************************************************************)
OffDictLen == 288      \* 0x120
OffCountWord == 292    \* 0x124
OffName == 304         \* 0x130
OffType == 824         \* 0x338
OffInfo == 1344        \* 0x540
OffSample == 3392      \* 0xD40
OffPyTable == 5440     \* 0x1540
FieldLen == 64
LongFieldLen == 1024
TrailerLen == 12

Min(a, b) == IF a < b THEN a ELSE b
Max(a, b) == IF a < b THEN b ELSE a

(***************************************************************************)
(* The bytes of a file.  A file is the record                              *)
(*   size    its length                                                    *)
(*   dictLen the number stored at 0x120                                    *)
(*   countWord the number stored at 0x124                                  *)
(*   text    the bytes at the start of each metadata field                 *)
(*   fill    the byte everywhere else below 0x1540                         *)
(*   body    the bytes from 0x1540 on                                      *)
(*   layout  the table and the groups the body was written from, and       *)
(*           whether it was written in full (not read by the program)      *)
(***************************************************************************)
FieldOffsets == {OffName, OffType, OffInfo, OffSample}

LEByte(n, k) == (n \div (256 ^ k)) % 256

ByteAt(file, i) ==
    IF i >= OffPyTable THEN file.body[i - OffPyTable + 1]
    ELSE IF i >= OffDictLen /\ i < OffDictLen + 4 THEN LEByte(file.dictLen, i - OffDictLen)
    ELSE IF i >= OffCountWord /\ i < OffCountWord + 4
         THEN LEByte(file.countWord, i - OffCountWord)
    ELSE IF \E o \in FieldOffsets : i >= o /\ i < o + Len(file.text)
         THEN LET o == CHOOSE o \in FieldOffsets : i >= o /\ i < o + Len(file.text)
              IN  file.text[i - o + 1]
    ELSE file.fill

\* f.read(n) at position p: the bytes, and the position after them.
Read(file, p, n) ==
    LET k == Min(n, Max(0, file.size - p))
    IN  [data |-> [i \in 1..k |-> ByteAt(file, p + i - 1)], pos |-> p + k]

\* struct.unpack('<H', b) and ('<I', b) of a full read; header[0] + (header[1] << 8)
U16(b) == b[1] + 256 * b[2]
U32(b) == b[1] + 256 * b[2] + 65536 * b[3] + 16777216 * b[4]

(***************************************************************************)
(* bytes.decode('utf-16-le'): the code units, a surrogate pair giving one  *)
(* code point.  The strict decoder fails on an odd length and on a         *)
(* surrogate that is not half of a pair; errors='ignore' drops them.       *)
(***************************************************************************)
Units(b) == [i \in 1..(Len(b) \div 2) |-> b[2 * i - 1] + 256 * b[2 * i]]
IsHigh(u) == u >= 55296 /\ u <= 56319
IsLow(u) == u >= 56320 /\ u <= 57343

Utf16Valid(b) ==
    LET u == Units(b)
    IN  /\ Len(b) % 2 = 0
        /\ \A i \in 1..Len(u) :
              /\ IsHigh(u[i]) => (i < Len(u) /\ IsLow(u[i + 1]))
              /\ IsLow(u[i]) => (i > 1 /\ IsHigh(u[i - 1]))

Utf16At(u, i) ==
    IF IsHigh(u[i])
    THEN IF i < Len(u) /\ IsLow(u[i + 1])
         THEN <<65536 + (u[i] - 55296) * 1024 + (u[i + 1] - 56320)>>
         ELSE <<>>
    ELSE IF IsLow(u[i]) THEN <<>>
    ELSE <<u[i]>>

RECURSIVE Utf16Span(_, _, _)
Utf16Span(u, lo, hi) ==
    IF lo > hi THEN <<>>
    ELSE IF lo = hi THEN Utf16At(u, lo)
    ELSE LET mid == (lo + hi) \div 2
         IN  Utf16Span(u, lo, mid) \o Utf16Span(u, mid + 1, hi)

Utf16Ignore(b) == LET u == Units(b) IN Utf16Span(u, 1, Len(u))

(***************************************************************************)
(* bytes.decode('gbk', errors='ignore'): a byte below 0x80 is itself, a    *)
(* lead byte 0x81..0xFE with a trail byte 0x40..0x7E or 0x80..0xFE is one  *)
(* character, any other byte is dropped.  The code page's table is not     *)
(* modelled: the character of a pair is a number above every code point.   *)
(***************************************************************************)
IsTrail(x) == (x >= 64 /\ x <= 126) \/ (x >= 128 /\ x <= 254)
GbkChar(lead, trail) == 1114112 + 256 * lead + trail

RECURSIVE GbkIgnoreFrom(_, _)
GbkIgnoreFrom(b, i) ==
    IF i > Len(b) THEN <<>>
    ELSE IF b[i] < 128 THEN <<b[i]>> \o GbkIgnoreFrom(b, i + 1)
    ELSE IF b[i] = 128 \/ b[i] = 255 THEN GbkIgnoreFrom(b, i + 1)
    ELSE IF i < Len(b) /\ IsTrail(b[i + 1])
         THEN <<GbkChar(b[i], b[i + 1])>> \o GbkIgnoreFrom(b, i + 2)
    ELSE GbkIgnoreFrom(b, i + 1)

GbkIgnore(b) == GbkIgnoreFrom(b, 1)

\* try: decode('utf-16-le')  except UnicodeDecodeError: decode('gbk', errors='ignore')
DecodeWithFallback(b) == IF Utf16Valid(b) THEN Utf16Ignore(b) ELSE GbkIgnore(b)

(***************************************************************************)
(* str.replace('\x00', ''), str.find('\x00') with the slice, str.strip()   *)
(***************************************************************************)
RemoveNulls(s) == SelectSeq(s, LAMBDA c : c # 0)

TruncateAtNull(s) ==
    LET nulls == {i \in 1..Len(s) : s[i] = 0}
    IN  IF nulls = {} THEN s
        ELSE SubSeq(s, 1, (CHOOSE i \in nulls : \A j \in nulls : i <= j) - 1)

\* the code points str.isspace() holds of
IsSpace(c) ==
    \/ c >= 9 /\ c <= 13
    \/ c >= 28 /\ c <= 32
    \/ c \in {133, 160, 5760, 8232, 8233, 8239, 8287, 12288}
    \/ c >= 8192 /\ c <= 8202

Strip(s) ==
    LET solid == {i \in 1..Len(s) : ~IsSpace(s[i])}
    IN  IF solid = {} THEN <<>>
        ELSE SubSeq(s, CHOOSE i \in solid : \A j \in 1..(i - 1) : IsSpace(s[j]),
                       CHOOSE i \in solid : \A j \in (i + 1)..Len(s) : IsSpace(s[j]))

(***************************************************************************)
(* _read_scel_field_text(f, seek_pos, length), called with the cursor at   *)
(* p: the text returned and the position the cursor is left at.            *)
(***************************************************************************)
\* a decoder that forgets the strip of line 50
FieldTextNoStrip(data) == TruncateAtNull(Utf16Ignore(data))

FieldText(data) == Strip(TruncateAtNull(Utf16Ignore(data)))

\* a reader that forgets the seek of line 49
ReadScelFieldTextNoRestore(file, p, seek_pos, length) ==
    LET r == Read(file, seek_pos, length)
    IN  [text |-> FieldText(r.data), pos |-> r.pos]

ReadScelFieldText(file, p, seek_pos, length) ==
    LET current_pos == p
        r == Read(file, seek_pos, length)
    IN  [text |-> FieldText(r.data), pos |-> current_pos]

(***************************************************************************)
(* str(n) of a number n >= 0                                               *)
(***************************************************************************)
RECURSIVE Str(_)
Str(n) == IF n < 10 THEN <<48 + n>> ELSE Str(n \div 10) \o <<48 + (n % 10)>>

NoLayout == [table |-> << >>, groups |-> << >>, whole |-> FALSE]

(***************************************************************************)
(* The state no function has touched yet.                                  *)
(***************************************************************************)
\* tableShort: a read of a spelling of the table got fewer bytes than declared
\* faults: reads that raised; failed: the call of _parse_pinyin_word that raised last
\* shortHeaders: header reads that got fewer than four bytes
\* afterExcept: the last group ended in the handler, which caught it at caughtAt
NoHist == [tableShort |-> FALSE, faults |-> 0, failed |-> 0, shortHeaders |-> 0,
           afterExcept |-> FALSE, caughtAt |-> 0]

Fresh(file) ==
    /\ f = file
    /\ pos = 0
    /\ info = << >>
    /\ dict_len = 0
    /\ py_dict_len = 0
    /\ tleft = 0
    /\ gleft = 0
    /\ py_dict = << >>
    /\ word_libraries = << >>
    /\ hleft = 0
    /\ py_index_count = 0
    /\ py_data = << >>
    /\ word_py = << >>
    /\ words = << >>
    /\ gno = 0
    /\ hist = NoHist

parseVars == <<dict_len, py_dict_len, tleft, gleft, py_dict, word_libraries,
               hleft, py_index_count, py_data, word_py, words, gno, hist>>

(***************************************************************************)
(* read_scel_info (lines 14-29)                                            *)
(***************************************************************************)
\* the four calls of lines 24-27, in order
InfoFields ==
    << [key |-> "Name", seek_pos |-> OffName, length |-> FieldLen],
       [key |-> "Type", seek_pos |-> OffType, length |-> FieldLen],
       [key |-> "Info", seek_pos |-> OffInfo, length |-> LongFieldLen],
       [key |-> "Sample", seek_pos |-> OffSample, length |-> LongFieldLen] >>

\* the inputs: the bytes a text field may start with, and the files
TextBytes == {0, 32, 97, 216, 255}

RECURSIVE BytesUpTo(_, _)
BytesUpTo(alphabet, n) ==
    IF n = 0 THEN {<< >>}
    ELSE LET shorter == BytesUpTo(alphabet, n - 1)
         IN  shorter \cup {Append(s, b) : s \in {t \in shorter : Len(t) = n - 1}, b \in alphabet}

\* a file that ends in or before the second field, with every text; a file
\* that holds the long fields, with the texts of at most two bytes
ShortSizes ==
    {0, OffCountWord + 2, OffCountWord + 4} \cup {OffName + k : k \in 1..(MaxText + 1)}
      \cup {OffName + FieldLen, OffType + 2}

LongSizes == {OffInfo + 5, OffSample + LongFieldLen}

InfoFiles ==
    [size : ShortSizes, dictLen : {0}, countWord : {258},
     text : BytesUpTo(TextBytes, MaxText), fill : {0, 32, 255}, body : {<< >>},
     layout : {NoLayout}]
    \cup
    [size : LongSizes, dictLen : {0}, countWord : {258},
     text : BytesUpTo(TextBytes, 2), fill : {0, 32, 255}, body : {<< >>},
     layout : {NoLayout}]

InitInfo == \E file \in InfoFiles : Fresh(file) /\ pc = "info_open"

\* lines 19-21: seek, read four bytes, unpack them (which fails on a short read)
InfoReadCount ==
    /\ pc = "info_open"
    /\ LET r == Read(f, OffCountWord, 4)
       IN  /\ pos' = r.pos
           /\ IF Len(r.data) < 4
              THEN pc' = "raised" /\ info' = info
              ELSE pc' = "info_field" /\ info' = <<[key |-> "CountWord", text |-> Str(U32(r.data))]>>
    /\ UNCHANGED <<f, parseVars>>

\* lines 24-27: the next of the four field reads
InfoField ==
    /\ pc = "info_field"
    /\ Len(info) <= Len(InfoFields)
    /\ LET fld == InfoFields[Len(info)]
           r == ReadScelFieldText(f, pos, fld.seek_pos, fld.length)
       IN  /\ info' = Append(info, [key |-> fld.key, text |-> r.text])
           /\ pos' = r.pos
    /\ pc' = IF Len(info) = Len(InfoFields) THEN "info_done" ELSE "info_field"
    /\ UNCHANGED <<f, parseVars>>

InfoNext == InfoReadCount \/ InfoField

SpecInfo == InitInfo /\ [][InfoNext]_vars

(***************************************************************************)
(* The inputs of parse_scel: the body is the table's count, the table's    *)
(* entries (index, length, bytes) and the groups (count, index length,     *)
(* index bytes, and per homophone a length, the word and a trailer), cut   *)
(* after any number of its bytes.                                          *)
(***************************************************************************)
LE16(n) == <<n % 256, n \div 256>>
LE32(n) == <<n % 256, (n \div 256) % 256, 0, 0>>

RECURSIVE Flatten(_)
Flatten(ss) == IF ss = << >> THEN << >> ELSE Head(ss) \o Flatten(Tail(ss))

Trailer == <<10, 0, 1, 0, 0, 0, 0, 0, 0, 0, 0, 0>>

EncTableEntry(e) == LE16(e.idx) \o LE16(Len(e.data)) \o e.data
EncRecord(w) == LE16(Len(w)) \o w \o Trailer
EncGroup(g) ==
    LE16(Len(g.recs)) \o LE16(Len(g.idata)) \o g.idata
      \o Flatten([r \in 1..Len(g.recs) |-> EncRecord(g.recs[r])])
EncBody(l) ==
    LE32(Len(l.table)) \o Flatten([k \in 1..Len(l.table) |-> EncTableEntry(l.table[k])])
      \o Flatten([g \in 1..Len(l.groups) |-> EncGroup(l.groups[g])])

\* "ma"; an odd number of bytes; a space, a null and "a"
TableChoices ==
    << [idx |-> 0, data |-> <<109, 0, 97, 0>>],
       [idx |-> 256, data |-> <<109>>],
       [idx |-> 0, data |-> <<32, 0, 0, 0, 97, 0>>] >>

\* index 0; indices 27 and 256; indices 0 and 27 and an odd byte; no index
IndexChoices == << <<0, 0>>, <<27, 0, 0, 1>>, <<0, 0, 27, 0, 5>>, << >> >>

\* "ab"; an odd number of bytes; a lone surrogate and "a"
WordChoices == << <<97, 0, 98, 0>>, <<97>>, <<0, 216, 97, 0>> >>

Pick(choices, n) == choices[(n % Len(choices)) + 1]

\* the layout of gn groups after pattern sd, the counts of the groups after cs
Layout(gn, cs, sd) ==
    [table |-> [k \in 1..(sd % (MaxTable + 1)) |-> Pick(TableChoices, k + sd)],
     groups |-> [g \in 1..gn |->
                   [idata |-> Pick(IndexChoices, g + sd),
                    recs |-> [r \in 1..((g + cs) % (MaxHomophones + 1)) |->
                                Pick(WordChoices, g + r + sd)]]],
     whole |-> TRUE]

Layouts ==
    {Layout(gn, cs, sd) : gn \in 0..MaxGroups, cs \in 0..MaxHomophones,
                          sd \in 0..(NSeeds - 1)}

\* the number at 0x120: the groups of the file, one fewer or one more
DictLens(l) == Max(0, Len(l.groups) - 1)..(Len(l.groups) + 1)

ParseFile(l, cut, d) ==
    [size |-> OffPyTable + cut, dictLen |-> d, countWord |-> 0, text |-> << >>,
     fill |-> 0, body |-> SubSeq(EncBody(l), 1, cut),
     layout |-> [l EXCEPT !.whole = (cut = Len(EncBody(l)))]]

ParseFiles ==
    UNION {{ParseFile(l, cut, d) : cut \in 0..Len(EncBody(l)), d \in DictLens(l)} :
             l \in Layouts}
    \cup
    {[size |-> n, dictLen |-> 1, countWord |-> 0, text |-> << >>, fill |-> 0,
      body |-> << >>, layout |-> NoLayout] : n \in {0, OffDictLen + 2, OffDictLen + 4}}

InitParse == \E file \in ParseFiles : Fresh(file) /\ pc = "open"

(***************************************************************************)
(* parse_scel (lines 52-94) and _parse_pinyin_word (lines 96-152).         *)
(* pc: "open" before line 59, "table" at line 67, "header" at line 99,     *)
(* "indices" at line 107, "homophone" at line 125, "return" at line 152,   *)
(* "except" at line 88, "done" after line 94, "raised" when an exception   *)
(* has left the function.                                                  *)
(***************************************************************************)
GroupPc(n) == IF n > 0 THEN "header" ELSE "done"
AfterTablePc(t, g) == IF t > 0 THEN "table" ELSE GroupPc(g)
HomophonePc(n) == IF n > 0 THEN "homophone" ELSE "return"

GroupPcs == {"header", "indices", "homophone", "return", "except"}

\* lines 59-64: the two counts; either unpack fails on a short read
ParseOpen ==
    /\ pc = "open"
    /\ LET r1 == Read(f, OffDictLen, 4)
           r2 == Read(f, OffPyTable, 4)
       IN  IF Len(r1.data) < 4
           THEN /\ pc' = "raised"
                /\ pos' = r1.pos
                /\ UNCHANGED <<dict_len, py_dict_len, tleft, gleft>>
           ELSE IF Len(r2.data) < 4
           THEN /\ pc' = "raised"
                /\ pos' = r2.pos
                /\ dict_len' = U32(r1.data)
                /\ UNCHANGED <<py_dict_len, tleft, gleft>>
           ELSE /\ dict_len' = U32(r1.data)
                /\ py_dict_len' = U32(r2.data)
                /\ tleft' = U32(r2.data)
                /\ gleft' = U32(r1.data)
                /\ pos' = r2.pos
                /\ pc' = AfterTablePc(U32(r2.data), U32(r1.data))
    /\ UNCHANGED <<f, info, py_dict, word_libraries, hleft, py_index_count, py_data,
                   word_py, words, gno, hist>>

\* lines 72-80: the spelling of the bytes of a table entry
PySpelling(data) == Strip(RemoveNulls(DecodeWithFallback(data)))

\* line 81: py_dict[idx] = py_str
PyDictSet(d, idx, py_str) ==
    [i \in (DOMAIN d) \cup {idx} |-> IF i = idx THEN py_str ELSE d[i]]

\* lines 67-81: one iteration of the table loop
TableEntry ==
    /\ pc = "table"
    /\ tleft > 0
    /\ LET r1 == Read(f, pos, 2)
           r2 == Read(f, r1.pos, 2)
           r3 == Read(f, r2.pos, U16(r2.data))
       IN  IF Len(r1.data) < 2
           THEN pc' = "raised" /\ pos' = r1.pos /\ UNCHANGED <<tleft, py_dict, hist>>
           ELSE IF Len(r2.data) < 2
           THEN pc' = "raised" /\ pos' = r2.pos /\ UNCHANGED <<tleft, py_dict, hist>>
           ELSE /\ py_dict' = PyDictSet(py_dict, U16(r1.data), PySpelling(r3.data))
                /\ pos' = r3.pos
                /\ tleft' = tleft - 1
                /\ pc' = AfterTablePc(tleft - 1, gleft)
                /\ hist' = [hist EXCEPT !.tableShort = @ \/ Len(r3.data) < U16(r2.data)]
    /\ UNCHANGED <<f, info, dict_len, py_dict_len, gleft, word_libraries, hleft,
                   py_index_count, py_data, word_py, words, gno>>

\* lines 117-121: the spelling of one index
Chr(n) == <<n>>
\* a fallback that takes the index modulo 25
ResolveIndexMod25(d, idx) == IF idx \in DOMAIN d THEN d[idx] ELSE Chr(97 + (idx % 25))

ResolveIndex(d, idx) == IF idx \in DOMAIN d THEN d[idx] ELSE Chr(97 + (idx % 26))

\* lines 111-121: the spellings of the index bytes, a pair of bytes an index
WordPy(d, data) ==
    [k \in 1..(Len(data) \div 2) |->
       ResolveIndex(d, data[2 * k - 1] + 256 * data[2 * k])]

\* an assignment in place of extend, and an extend at the front
ExtendAssign(list, more) == more
ExtendFront(list, more) == more \o list

\* line 87: word_libraries.extend(words)
Extend(list, more) == list \o more

\* the loop of line 84 goes on to its next iteration
NextGroup ==
    /\ gleft' = gleft - 1
    /\ pc' = GroupPc(gleft - 1)

\* a return of the list of the group before
ShortHeaderStale == words

\* line 101: return []
ShortHeaderResult == << >>

\* lines 99-104: the header of a group; a short one returns [] (line 101),
\* which line 87 extends the output with
GroupHeader ==
    /\ pc = "header"
    /\ LET header == Read(f, pos, 4)
       IN  /\ pos' = header.pos
           /\ gno' = gno + 1
           /\ IF Len(header.data) < 4
              THEN /\ word_libraries' = Extend(word_libraries, ShortHeaderResult)
                   /\ NextGroup
                   /\ hist' = [hist EXCEPT !.shortHeaders = @ + 1, !.afterExcept = FALSE]
                   /\ UNCHANGED <<hleft, py_index_count>>
              ELSE /\ hleft' = header.data[1] + 256 * header.data[2]
                   /\ py_index_count' = header.data[3] + 256 * header.data[4]
                   /\ pc' = "indices"
                   /\ hist' = [hist EXCEPT !.afterExcept = FALSE]
                   /\ UNCHANGED <<gleft, word_libraries>>
    /\ UNCHANGED <<f, info, dict_len, py_dict_len, tleft, py_dict, py_data, word_py,
                   words>>

\* lines 107-124: the index bytes and their spellings; words = []
GroupIndices ==
    /\ pc = "indices"
    /\ LET r == Read(f, pos, py_index_count)
       IN  /\ py_data' = r.data
           /\ word_py' = WordPy(py_dict, r.data)
           /\ pos' = r.pos
    /\ words' = << >>
    /\ pc' = HomophonePc(hleft)
    /\ UNCHANGED <<f, info, dict_len, py_dict_len, tleft, gleft, py_dict, word_libraries,
                   hleft, py_index_count, gno, hist>>

\* lines 136-141: the word of the bytes of a homophone record
WordText(data) == RemoveNulls(DecodeWithFallback(data))

\* lines 146-150: the entry.  src is history, not a field of WordLibrary: the
\* call that made the entry, the offset of its length prefix, the length the
\* prefix declared and the number of bytes read for the word
WordLibrary(word, pinyin, src) == [word |-> word, pinyin |-> pinyin, rank |-> 1, src |-> src]

\* lines 125-150: one iteration of the homophone loop
Homophone ==
    /\ pc = "homophone"
    /\ hleft > 0
    /\ LET len_data == Read(f, pos, 2)
           word_len == U16(len_data.data)
           word_data == Read(f, len_data.pos, word_len)
           skipped == Read(f, word_data.pos, TrailerLen)
       IN  IF Len(len_data.data) < 2
           THEN /\ pos' = len_data.pos
                /\ pc' = "return"
                /\ UNCHANGED <<hleft, words>>
           ELSE /\ pos' = skipped.pos
                /\ words' = Append(words,
                       WordLibrary(WordText(word_data.data), word_py,
                                   [g |-> gno, off |-> pos, want |-> word_len,
                                    got |-> Len(word_data.data)]))
                /\ hleft' = hleft - 1
                /\ pc' = HomophonePc(hleft - 1)
    /\ UNCHANGED <<f, info, dict_len, py_dict_len, tleft, gleft, py_dict, word_libraries,
                   py_index_count, py_data, word_py, gno, hist>>

\* line 152, then line 87 with the list returned
GroupReturn ==
    /\ pc = "return"
    /\ word_libraries' = Extend(word_libraries, words)
    /\ NextGroup
    /\ UNCHANGED <<f, pos, info, dict_len, py_dict_len, tleft, py_dict, hleft,
                   py_index_count, py_data, word_py, words, gno, hist>>

(***************************************************************************)
(* A read of _parse_pinyin_word raises (the operating system fails it): no *)
(* other statement of the function can raise.  The cursor stays where the  *)
(* failed read found it: before the header, before the index bytes, or in  *)
(* a homophone record before its length, its word or its trailer.          *)
(***************************************************************************)
FaultPositions ==
    IF pc = "homophone"
    THEN LET len_data == Read(f, pos, 2)
         IN  IF Len(len_data.data) < 2 THEN {pos}
             ELSE {pos, len_data.pos, Read(f, len_data.pos, U16(len_data.data)).pos}
    ELSE {pos}

ReadFault ==
    /\ pc \in {"header", "indices", "homophone"}
    /\ hist.faults < MaxFaults
    /\ \E p \in FaultPositions : pos' = p
    /\ pc' = "except"
    /\ gno' = IF pc = "header" THEN gno + 1 ELSE gno
    /\ hist' = [hist EXCEPT !.faults = @ + 1,
                             !.failed = IF pc = "header" THEN gno + 1 ELSE gno]
    /\ UNCHANGED <<f, info, dict_len, py_dict_len, tleft, gleft, py_dict, word_libraries,
                   hleft, py_index_count, py_data, word_py, words>>

\* a handler that consumes a byte whatever the position
AlignPosAlways(file, p) == Read(file, p, 1).pos

\* lines 91-92: if f.tell() % 2 != 0: f.read(1)
AlignPos(file, p) == IF p % 2 # 0 THEN Read(file, p, 1).pos ELSE p

\* a handler that raises the failure again
GroupExceptReraise ==
    /\ pc = "except"
    /\ pc' = "raised"
    /\ UNCHANGED <<f, pos, info, dict_len, py_dict_len, tleft, gleft, py_dict,
                   word_libraries, hleft, py_index_count, py_data, word_py, words, gno,
                   hist>>

\* lines 88-92: the handler of the group loop
GroupExcept ==
    /\ pc = "except"
    /\ pos' = AlignPos(f, pos)
    /\ NextGroup
    /\ hist' = [hist EXCEPT !.afterExcept = TRUE, !.caughtAt = pos]
    /\ UNCHANGED <<f, info, dict_len, py_dict_len, tleft, py_dict, word_libraries, hleft,
                   py_index_count, py_data, word_py, words, gno>>

Next ==
    \/ ParseOpen
    \/ TableEntry
    \/ GroupHeader
    \/ GroupIndices
    \/ Homophone
    \/ GroupReturn
    \/ ReadFault
    \/ GroupExcept

Spec == InitParse /\ [][Next]_vars

(***************************************************************************)
(* The claims.                                                             *)
(***************************************************************************)
Entries(g) == {i \in DOMAIN word_libraries : word_libraries[i].src.g = g}
GroupsParsed == Min(f.dictLen, Len(f.layout.groups))

\* C1: a file written in full and read without a failure gives, for each of
\* the groups parsed, as many entries as the group's header declares, each
\* from a record of its own: the output holds their sum, nothing dropped and
\* nothing twice.
C1_EntriesAreSumOfHomophoneCounts ==
    (pc = "done" /\ f.layout.whole /\ hist.faults = 0) =>
        /\ \A g \in 1..GroupsParsed :
              Cardinality(Entries(g)) = Len(f.layout.groups[g].recs)
        /\ \A i \in DOMAIN word_libraries : word_libraries[i].src.g \in 1..GroupsParsed
        /\ \A i, j \in DOMAIN word_libraries :
              i # j => word_libraries[i].src.off # word_libraries[j].src.off

C1_Witness ==
    /\ pc = "done" /\ f.layout.whole /\ hist.faults = 0
    /\ GroupsParsed = 2
    /\ Cardinality(Entries(1)) >= 1
    /\ Cardinality(Entries(2)) = 2

\* C2 (as claimed): a homophone record whose length prefix or whose declared
\* word bytes are not all in the buffer gives no entry, so every entry of the
\* output has all the bytes its prefix declared.
C2_UnderrunGivesNoEntry ==
    hist.faults = 0 =>
        \A i \in DOMAIN word_libraries :
            word_libraries[i].src.got = word_libraries[i].src.want

\* C3: a failure raised in the parse of a group never leaves parse_scel; the
\* handler keeps the output as it was and the loop goes on to its next
\* iteration, or returns when none is left.
C3_GroupFailureIsContained ==
    [][/\ pc \in GroupPcs => pc' # "raised"
       /\ pc' = "except" => word_libraries' = word_libraries
       /\ pc = "except" =>
             /\ word_libraries' = word_libraries
             /\ gleft' = gleft - 1
             /\ pc' = IF gleft > 1 THEN "header" ELSE "done"]_vars

C3_Witness ==
    /\ pc = "done"
    /\ hist.faults > 0
    /\ \E i, j \in DOMAIN word_libraries :
          /\ word_libraries[i].src.g < hist.failed
          /\ word_libraries[j].src.g > hist.failed

\* C4 (as claimed): once a spelling of the table was read short, parse_scel
\* fails: it never gets to the groups and never returns a list.
C4_TruncatedTableIsFatal ==
    hist.tableShort => pc \in {"table", "raised"}

\* C5: after the index bytes of a group are read, the group has one spelling
\* for each whole pair of bytes, in order: the table's for an index the table
\* holds, else the letter at (index mod 26) of a..z.
Alphabet == <<97, 98, 99, 100, 101, 102, 103, 104, 105, 106, 107, 108, 109, 110, 111,
              112, 113, 114, 115, 116, 117, 118, 119, 120, 121, 122>>
IndexOfPair(k) == py_data[2 * k - 1] + 256 * py_data[2 * k]

C5_OneSpellingPerIndexPair ==
    pc \in {"homophone", "return"} =>
        /\ Len(word_py) = Len(py_data) \div 2
        /\ \A k \in 1..Len(word_py) :
              word_py[k] = IF IndexOfPair(k) \in DOMAIN py_dict
                           THEN py_dict[IndexOfPair(k)]
                           ELSE <<Alphabet[(IndexOfPair(k) % 26) + 1]>>

C5_Witness ==
    /\ pc = "homophone"
    /\ Len(py_data) % 2 = 1
    /\ \E k \in 1..Len(word_py) : IndexOfPair(k) \in DOMAIN py_dict
    /\ \E k \in 1..Len(word_py) : IndexOfPair(k) \notin DOMAIN py_dict /\ IndexOfPair(k) >= 26

\* C6: read_scel_info fails at the count or not at all, and every text a
\* field read returned holds no null and neither starts nor ends with
\* whitespace.
FieldTexts == {info[i].text : i \in 2..Len(info)}

C6_FieldTextIsClean ==
    /\ pc = "raised" => Len(info) = 0
    /\ \A t \in FieldTexts :
          /\ \A i \in 1..Len(t) : t[i] # 0
          /\ t # << >> => ~IsSpace(t[1]) /\ ~IsSpace(t[Len(t)])

C6_Witness ==
    /\ Len(info) >= 2
    /\ info[2].text # << >>
    /\ LET raw == Utf16Ignore(Read(f, OffName, FieldLen).data)
       IN  /\ IsSpace(raw[1])
           /\ \E i \in 1..Len(raw) : raw[i] = 0
           /\ Len(raw) > Len(info[2].text) + 1

\* C7: a field read leaves the cursor where it found it, so the cursor is at
\* 0x128 before and after each of the four field reads.
C7_CursorRestored ==
    pc \in {"info_field", "info_done"} => pos = OffCountWord + 4

C7_Witness ==
    /\ pc = "info_done"
    /\ Len(Read(f, OffSample, LongFieldLen).data) = LongFieldLen

\* C8: no group is parsed before every iteration of the table loop is done,
\* the table does not change while groups are parsed, and the output lists
\* the entries by group and, in a group, by the offset of their record.
C8_TwoPhasesInFileOrder ==
    /\ [](pc \in GroupPcs \cup {"done"} => tleft = 0)
    /\ [](\A i, j \in DOMAIN word_libraries :
             i < j => /\ word_libraries[i].src.g <= word_libraries[j].src.g
                      /\ word_libraries[i].src.off < word_libraries[j].src.off)
    /\ [][(pc \in GroupPcs) => (py_dict' = py_dict)]_vars

C8_Witness ==
    /\ pc = "done"
    /\ py_dict_len >= 1
    /\ \E i, j, k \in DOMAIN word_libraries :
          /\ i < j /\ j < k
          /\ word_libraries[i].src.g < word_libraries[j].src.g
          /\ word_libraries[j].src.g = word_libraries[k].src.g

\* C9 (as claimed): a header read that gets fewer than four bytes ends the
\* group loop there and then.
C9_LoopStopsAtShortHeader ==
    (hist.faults = 0 /\ hist.shortHeaders > 0) => pc = "done"

\* C9 (amended): after a header read that got fewer than four bytes the
\* loop runs its other iterations, each of which finds the cursor at the end
\* of the file, leaves it there and adds no entry; none of them fails.
C9_NothingAfterShortHeader ==
    [][hist.shortHeaders > 0 =>
          /\ pos = f.size /\ pos' = pos
          /\ word_libraries' = word_libraries
          /\ pc' \in {"header", "except", "done"}]_vars

C9_Witness ==
    /\ pc = "done"
    /\ hist.shortHeaders >= 2
    /\ Len(word_libraries) > 0

====
